---- MODULE Spec2Model ----
(***************************************************************************)
(* SupervisedMAE (models_clip.py): a pretrained CLIP backbone feeding a    *)
(* stack of cross-attention decoder blocks and a four-stage convolutional  *)
(* density regression head.  Tensors are modelled by their shape, the      *)
(* sequence of operations that produced them, the parameter groups their   *)
(* autograd graph reaches, and the parameter versions they were computed   *)
(* from.  Parameters are modelled by the initialiser that last wrote them  *)
(* and by the number of optimizer updates their group has received.        *)
(***************************************************************************)
EXTENDS Integers, Sequences, FiniteSets, TLC

VARIABLES cfg, pc, params, initPasses, updates, steps,
          imgs, labels, shot_num, x, y, i, stage, textCalls, err, ref

vars == <<cfg, pc, params, initPasses, updates, steps,
          imgs, labels, shot_num, x, y, i, stage, textCalls, err, ref>>

(* ---------------------------------------------------------------- bounds *)

MaxBatch == 2

MaxPatches == 5

MaxSteps == 1

MaxCustomDepth == 1

\* later forward calls counted after the reference call (the count saturates)
MaxCounted == 2

(* ------------------------------------------------------ program constants *)

\* width of the ViT-B-32 embeddings returned by encode_image / encode_text
ClipWidth == 512

\* channel count of the regression head
HeadChannels == 256

\* groups of every GroupNorm of the regression head
HeadGroups == 8

\* default of forward_decoder's shot_num
DefaultShotNum == 3

\* exemplar tokens per label in the text embedding [N, S, 512]
ExemplarTokens == 3

(* ---------------------------------------------------------- configurations *)

Presets ==
  { [name |-> "mae_vit_base_patch16_dec512d8b",  decoder_embed_dim |-> 512, decoder_depth |-> 2],
    [name |-> "mae_vit_large_patch16_dec512d8b", decoder_embed_dim |-> 512, decoder_depth |-> 2],
    [name |-> "mae_vit_huge_patch14_dec512d8b",  decoder_embed_dim |-> 512, decoder_depth |-> 2],
    [name |-> "mae_vit_base_patch16_fim4",       decoder_embed_dim |-> 512, decoder_depth |-> 4],
    [name |-> "mae_vit_base_patch16_fim6",       decoder_embed_dim |-> 512, decoder_depth |-> 6] }

\* direct calls of SupervisedMAE(decoder_embed_dim=..., decoder_depth=...)
Widths == {256, 512, 768}

CustomConfigs ==
  [name : {"SupervisedMAE"}, decoder_embed_dim : Widths, decoder_depth : 0..MaxCustomDepth]

Configs == Presets \cup CustomConfigs

(* ------------------------------------------------------------------ inputs *)

\* an image batch [N, 3, H, W]; the backbone turns it into P patch tokens
Images == [n : 1..MaxBatch, p : 1..MaxPatches]

Labels == {"apples", "birds"}

ShotNums == {0, DefaultShotNum}

NoImage == [n |-> 0, p |-> 0]

(* -------------------------------------------------------------- parameters *)

Groups == {"clip_visual", "clip_text", "decoder_blocks", "decoder_norm",
           "decode_head", "shot_token"}

BackboneGroups == {"clip_visual", "clip_text"}

Layer(mod, idx, part, kind) == [mod |-> mod, idx |-> idx, part |-> part, kind |-> kind]

\* submodules of the open_clip ViT-B-32 model registered as self.clip_encoder
ClipLayers ==
  { Layer("clip_visual", 0, "conv1", "Conv2d"),
    Layer("clip_visual", 0, "ln", "LayerNorm"),
    Layer("clip_visual", 0, "mlp", "Linear"),
    Layer("clip_text", 0, "token_embedding", "Embedding"),
    Layer("clip_text", 0, "ln", "LayerNorm"),
    Layer("clip_text", 0, "mlp", "Linear") }

\* submodules of one CrossAttentionBlock(dim, num_heads, mlp_ratio, qkv_bias=True, norm_layer)
CrossAttentionBlockLayers(b) ==
  { Layer("decoder_blocks", b, "norm", "LayerNorm"),
    Layer("decoder_blocks", b, "attn", "Linear"),
    Layer("decoder_blocks", b, "mlp", "Linear") }

\* len(self.decoder_blocks): one block for i in range(decoder_depth)
NumBlocks_default(c) == 2

NumBlocks(c) == c.decoder_depth

DecoderBlockLayers(c) ==
  UNION { CrossAttentionBlockLayers(b) : b \in 0..(NumBlocks(c) - 1) }

DecoderNormLayers == { Layer("decoder_norm", 0, "norm", "LayerNorm") }

HeadLayers ==
  { Layer("decode_head", k, "conv", "Conv2d") : k \in 0..3 }
  \cup { Layer("decode_head", k, "gn", "GroupNorm") : k \in 0..3 }
  \cup { Layer("decode_head", 3, "conv1x1", "Conv2d") }

ShotTokenLayers == { Layer("shot_token", 0, "shot_token", "Parameter") }

Layers(c) == ClipLayers \cup DecoderBlockLayers(c) \cup DecoderNormLayers
             \cup HeadLayers \cup ShotTokenLayers

OwnLayers(c) == Layers(c) \ ClipLayers

Unallocated == [weight |-> "unallocated", bias |-> "unallocated"]

\* what the constructor of each torch module leaves in its parameters
DefaultInit(l) ==
  CASE l.kind = "Linear"    -> [weight |-> "kaiming_uniform", bias |-> "uniform"]
    [] l.kind = "Conv2d"    -> [weight |-> "kaiming_uniform", bias |-> "uniform"]
    [] l.kind = "LayerNorm" -> [weight |-> "one", bias |-> "zero"]
    [] l.kind = "GroupNorm" -> [weight |-> "one", bias |-> "zero"]
    [] l.kind = "Embedding" -> [weight |-> "normal", bias |-> "none"]
    [] OTHER                -> [weight |-> "zero", bias |-> "none"]

Pretrained(l) ==
  [weight |-> "pretrained",
   bias |-> IF DefaultInit(l).bias = "none" THEN "none" ELSE "pretrained"]

\* __init__ before initialize_weights: shot_token zeros, the backbone loaded
\* with its pretrained weights, every other module as torch constructs it
create_modules(c) ==
  [l \in Layers(c) |-> IF l \in ClipLayers THEN Pretrained(l) ELSE DefaultInit(l)]

_init_weights_keeps_bias(l, p) ==
  IF l.kind = "Linear"
    THEN [weight |-> "xavier_uniform", bias |-> p.bias]
    ELSE IF l.kind = "LayerNorm"
      THEN [weight |-> "one", bias |-> "zero"]
      ELSE p

_init_weights(l, p) ==
  IF l.kind = "Linear"
    THEN [weight |-> "xavier_uniform",
          bias |-> IF p.bias # "none" THEN "zero" ELSE p.bias]
    ELSE IF l.kind = "LayerNorm"
      THEN [weight |-> "one", bias |-> "zero"]
      ELSE p

\* self.apply visits self and every registered submodule, clip_encoder included
AppliedModules(c) == Layers(c) \ ShotTokenLayers

initialize_weights(c, ps) ==
  [l \in Layers(c) |->
     IF l \in ShotTokenLayers
       THEN [weight |-> "normal_std_0.02", bias |-> ps[l].bias]
       ELSE IF l \in AppliedModules(c) THEN _init_weights(l, ps[l]) ELSE ps[l]]

(* ----------------------------------------------------------------- tensors *)

NoLabel == "none"

NoTensor == [shape |-> <<>>, hist |-> <<>>, graph |-> {}, reads |-> {},
             src |-> [img |-> NoImage, lab |-> NoLabel]]

Op(op, idx, shape) == [op |-> op, idx |-> idx, shape |-> shape]

\* parameters read by an operation, with the version they have now
Reads(gs) == { <<g, updates[g]>> : g \in gs }

\* parameter groups recorded on the autograd graph
Track(gs, grad_enabled) == IF grad_enabled THEN gs ELSE {}

encode_image(img, grad_enabled) ==
  LET s == <<img.n, img.p, ClipWidth>> IN
  [shape |-> s,
   hist  |-> << Op("encode_image", 0, s) >>,
   graph |-> Track({"clip_visual"}, grad_enabled),
   reads |-> Reads({"clip_visual"}),
   src   |-> [img |-> img, lab |-> NoLabel]]

encode_text(lab, n, grad_enabled) ==
  LET s == <<n, ExemplarTokens, ClipWidth>> IN
  [shape |-> s,
   hist  |-> << Op("encode_text", 0, s) >>,
   graph |-> Track({"clip_text"}, grad_enabled),
   reads |-> Reads({"clip_text"}),
   src   |-> [img |-> NoImage, lab |-> lab]]

Width(t) == t.shape[Len(t.shape)]

\* CrossAttentionBlock.forward(x, y): queries from x, keys and values from y
blk_accepts(dim, t, ctx) == Width(t) = dim /\ Width(ctx) = dim

blk(b, t, ctx) ==
  [shape |-> t.shape,
   hist  |-> Append(t.hist, Op("blk", b, t.shape)),
   graph |-> t.graph \cup ctx.graph \cup Track({"decoder_blocks"}, TRUE),
   reads |-> t.reads \cup ctx.reads \cup Reads({"decoder_blocks"}),
   src   |-> [img |-> t.src.img, lab |-> ctx.src.lab]]

\* the width every layer of the decoder is built for
ModelWidth_hardcoded(c) == ClipWidth

ModelWidth(c) == c.decoder_embed_dim

\* F.layer_norm refuses an input whose last dimension is not normalized_shape
decoder_norm_accepts(c, t) == Width(t) = ModelWidth(c)

decoder_norm(t) ==
  [shape |-> t.shape,
   hist  |-> Append(t.hist, Op("decoder_norm", 0, t.shape)),
   graph |-> t.graph \cup Track({"decoder_norm"}, TRUE),
   reads |-> t.reads \cup Reads({"decoder_norm"}),
   src   |-> t.src]

(* --------------------------------------------------------- regression head *)

Conv2d(cin, cout, k, s, p) ==
  [op |-> "Conv2d", cin |-> cin, cout |-> cout, k |-> k, s |-> s, p |-> p]

GroupNorm(groups, ch) ==
  [op |-> "GroupNorm", cin |-> ch, cout |-> ch, k |-> groups, s |-> 0, p |-> 0]

ReLU == [op |-> "ReLU", cin |-> 0, cout |-> 0, k |-> 0, s |-> 0, p |-> 0]

decode_head0(c) ==
  << Conv2d(ModelWidth(c), HeadChannels, 3, 1, 1),
     GroupNorm(HeadGroups, HeadChannels),
     ReLU >>

decode_head1_no_padding ==
  << Conv2d(HeadChannels, HeadChannels, 3, 1, 0),
     GroupNorm(HeadGroups, HeadChannels),
     ReLU >>

decode_head1 ==
  << Conv2d(HeadChannels, HeadChannels, 3, 1, 1),
     GroupNorm(HeadGroups, HeadChannels),
     ReLU >>

decode_head2 ==
  << Conv2d(HeadChannels, HeadChannels, 3, 1, 1),
     GroupNorm(HeadGroups, HeadChannels),
     ReLU >>

decode_head3 ==
  << Conv2d(HeadChannels, HeadChannels, 3, 1, 1),
     GroupNorm(HeadGroups, HeadChannels),
     ReLU,
     Conv2d(HeadChannels, 1, 1, 1, 0) >>

decode_head(c, k) ==
  CASE k = 0 -> decode_head0(c)
    [] k = 1 -> decode_head1
    [] k = 2 -> decode_head2
    [] OTHER -> decode_head3

\* output side of a convolution: floor((in + 2*padding - kernel) / stride) + 1
ConvOut(side, m) == ((side + 2 * m.p - m.k) \div m.s) + 1

\* does the module accept an input of this [N, C, H, W] shape
LayerAccepts(m, s) ==
  CASE m.op = "Conv2d"    -> s[2] = m.cin /\ ConvOut(s[3], m) >= 1 /\ ConvOut(s[4], m) >= 1
    [] m.op = "GroupNorm" -> s[2] = m.cin
    [] OTHER              -> TRUE

LayerShape(m, s) ==
  CASE m.op = "Conv2d" -> <<s[1], m.cout, ConvOut(s[3], m), ConvOut(s[4], m)>>
    [] OTHER           -> s

\* nn.Sequential.forward: each module on the previous module's output
RECURSIVE SequentialAccepts(_, _)
SequentialAccepts(ms, s) ==
  IF ms = <<>> THEN TRUE
  ELSE LayerAccepts(Head(ms), s) /\ SequentialAccepts(Tail(ms), LayerShape(Head(ms), s))

RECURSIVE SequentialHist(_, _, _, _)
SequentialHist(ms, k, s, h) ==
  IF ms = <<>> THEN h
  ELSE LET s2 == LayerShape(Head(ms), s) IN
       SequentialHist(Tail(ms), k, s2, Append(h, Op(Head(ms).op, k, s2)))

\* F.interpolate(t, size=size, mode='bilinear', align_corners=False) on [N, C, H, W]
interpolate(s, size) == <<s[1], s[2], size, size>>

\* x = F.interpolate(self.decode_headK(x), size=x.shape[-1]*2, ...)
head_stage(c, k, t) ==
  LET h    == SequentialHist(decode_head(c, k), k, t.shape, t.hist)
      mid  == h[Len(h)].shape
      size == t.shape[Len(t.shape)] * 2
      out  == interpolate(mid, size)
  IN [shape |-> out,
      hist  |-> Append(h, Op("interpolate", k, out)),
      graph |-> t.graph \cup Track({"decode_head"}, TRUE),
      reads |-> t.reads \cup Reads({"decode_head"}),
      src   |-> t.src]

(* ----------------------------------------------------------- shape helpers *)

\* int(math.sqrt(hw))
ISqrt(n) == CHOOSE r \in 0..n : r * r <= n /\ (r + 1) * (r + 1) > n

RECURSIVE Numel(_)
Numel(s) == IF s = <<>> THEN 1 ELSE Head(s) * Numel(Tail(s))

\* Tensor.reshape raises unless the element counts agree
reshape_accepts_any(s, target) == TRUE

reshape_accepts(s, target) == Numel(s) = Numel(target)

\* Tensor.squeeze(dim): drops dimension dim (negative: from the end) when it is 1
squeeze_all(s, dim) == SelectSeq(s, LAMBDA d : d # 1)

squeeze(s, dim) ==
  LET at == Len(s) + 1 + dim IN
  IF s[at] = 1
    THEN [j \in 1..(Len(s) - 1) |-> IF j < at THEN s[j] ELSE s[j + 1]]
    ELSE s

(* ------------------------------------------------------------------ state *)

NoRef == [set |-> FALSE, later |-> 0, imgs |-> NoImage, labels |-> NoLabel, shot_num |-> 0,
          out |-> NoTensor]

Init ==
  /\ cfg \in Configs
  /\ pc = "new"
  /\ params = [l \in Layers(cfg) |-> Unallocated]
  /\ initPasses = 0
  /\ updates = [g \in Groups |-> 0]
  /\ steps = 0
  /\ imgs = NoImage
  /\ labels = NoLabel
  /\ shot_num = 0
  /\ x = NoTensor
  /\ y = NoTensor
  /\ i = 0
  /\ stage = 0
  /\ textCalls = 0
  /\ err = "none"
  /\ ref = NoRef

modelState == <<cfg, params, initPasses, updates, steps>>

callArgs == <<imgs, labels, shot_num>>

\* SupervisedMAE.__init__
Construct ==
  /\ pc = "new"
  /\ params' = initialize_weights(cfg, create_modules(cfg))
  /\ initPasses' = initPasses + 1
  /\ pc' = "idle"
  /\ UNCHANGED <<cfg, updates, steps, callArgs, x, y, i, stage, textCalls, err, ref>>

\* forward: with torch.no_grad(): latent = self.forward_encoder(imgs)
Forward ==
  /\ pc = "idle"
  /\ \E img \in Images, lab \in Labels, s \in ShotNums :
       /\ imgs' = img
       /\ labels' = lab
       /\ shot_num' = s
       /\ x' = encode_image(img, FALSE)
  /\ y' = NoTensor
  /\ i' = 0
  /\ stage' = 0
  /\ textCalls' = 0
  /\ err' = "none"
  /\ pc' = "encode_text"
  /\ ref' = IF ref.set /\ ref.later < MaxCounted
              THEN [ref EXCEPT !.later = ref.later + 1]
              ELSE ref
  /\ UNCHANGED modelState

\* the learned shot token standing in for the exemplars when there are no shots
shot_token_context(n) ==
  LET s == <<n, 1, ClipWidth>> IN
  [shape |-> s,
   hist  |-> << Op("shot_token", 0, s) >>,
   graph |-> Track({"shot_token"}, TRUE),
   reads |-> Reads({"shot_token"}),
   src   |-> [img |-> NoImage, lab |-> NoLabel]]

EncodeText_shot_gated ==
  /\ pc = "encode_text"
  /\ y' = IF shot_num = 0 THEN shot_token_context(imgs.n)
                          ELSE encode_text(labels, imgs.n, TRUE)
  /\ textCalls' = IF shot_num = 0 THEN textCalls ELSE textCalls + 1
  /\ pc' = "blocks"
  /\ UNCHANGED <<modelState, callArgs, x, i, stage, err, ref>>

\* forward_decoder: y = self.clip_encoder.encode_text(y_)
EncodeText ==
  /\ pc = "encode_text"
  /\ y' = encode_text(labels, imgs.n, TRUE)
  /\ textCalls' = textCalls + 1
  /\ pc' = "blocks"
  /\ UNCHANGED <<modelState, callArgs, x, i, stage, err, ref>>

\* for blk in self.decoder_blocks: x = blk(x, y)
Block ==
  /\ pc = "blocks"
  /\ i < NumBlocks(cfg)
  /\ IF blk_accepts(ModelWidth(cfg), x, y)
       THEN /\ x' = blk(i, x, y)
            /\ i' = i + 1
            /\ UNCHANGED <<pc, err>>
       ELSE /\ pc' = "raised"
            /\ err' = "blk"
            /\ UNCHANGED <<x, i>>
  /\ UNCHANGED <<modelState, callArgs, y, stage, textCalls, ref>>

\* a normalization layer that updates running statistics on every call
DecoderNorm_running_stats ==
  /\ pc = "blocks"
  /\ i >= NumBlocks(cfg)
  /\ decoder_norm_accepts(cfg, x)
  /\ x' = decoder_norm(x)
  /\ updates' = [updates EXCEPT !["decoder_norm"] = (updates["decoder_norm"] + 1) % 2]
  /\ pc' = "reshape"
  /\ UNCHANGED <<cfg, params, initPasses, steps, callArgs, y, i, stage, textCalls, err, ref>>

\* x = self.decoder_norm(x)
DecoderNorm ==
  /\ pc = "blocks"
  /\ i >= NumBlocks(cfg)
  /\ IF decoder_norm_accepts(cfg, x)
       THEN /\ x' = decoder_norm(x)
            /\ pc' = "reshape"
            /\ UNCHANGED err
       ELSE /\ pc' = "raised"
            /\ err' = "decoder_norm"
            /\ UNCHANGED x
  /\ UNCHANGED <<modelState, callArgs, y, i, stage, textCalls, ref>>

\* n, hw, c = x.shape; h = w = int(math.sqrt(hw))
\* x = x.transpose(1, 2).reshape(n, c, h, w)
Reshape ==
  /\ pc = "reshape"
  /\ LET n  == x.shape[1]
         hw == x.shape[2]
         c  == x.shape[3]
         h  == ISqrt(hw)
         w  == ISqrt(hw)
         tr == <<n, c, hw>>
         to == <<n, c, h, w>>
     IN IF reshape_accepts(tr, to)
          THEN /\ x' = [x EXCEPT !.shape = to,
                                 !.hist = x.hist \o << Op("transpose", 0, tr),
                                                       Op("reshape", 0, to) >>]
               /\ pc' = "head"
               /\ UNCHANGED err
          ELSE /\ pc' = "raised"
               /\ err' = "reshape"
               /\ UNCHANGED x
  /\ UNCHANGED <<modelState, callArgs, y, i, stage, textCalls, ref>>

\* the four x = F.interpolate(self.decode_headK(x), size=x.shape[-1]*2, ...) statements
HeadStage ==
  /\ pc = "head"
  /\ stage < 4
  /\ IF SequentialAccepts(decode_head(cfg, stage), x.shape)
       THEN /\ x' = head_stage(cfg, stage, x)
            /\ stage' = stage + 1
            /\ UNCHANGED <<pc, err>>
       ELSE /\ pc' = "raised"
            /\ err' = "decode_head"
            /\ UNCHANGED <<x, stage>>
  /\ UNCHANGED <<modelState, callArgs, y, i, textCalls, ref>>

\* x = x.squeeze(-3); return x
SqueezeReturn ==
  /\ pc = "head"
  /\ stage = 4
  /\ LET out == squeeze(x.shape, -3)
         res == [x EXCEPT !.shape = out,
                          !.hist = Append(x.hist, Op("squeeze", 0, out))]
     IN /\ x' = res
        /\ ref' = IF ref.set THEN ref
                  ELSE [set |-> TRUE, later |-> 0, imgs |-> imgs, labels |-> labels,
                        shot_num |-> shot_num, out |-> res]
  /\ pc' = "returned"
  /\ UNCHANGED <<modelState, callArgs, y, i, stage, textCalls, err>>

\* the caller takes the density map or the exception
Done ==
  /\ pc \in {"returned", "raised"}
  /\ pc' = "idle"
  /\ imgs' = NoImage
  /\ labels' = NoLabel
  /\ shot_num' = 0
  /\ x' = NoTensor
  /\ y' = NoTensor
  /\ i' = 0
  /\ stage' = 0
  /\ textCalls' = 0
  /\ err' = "none"
  /\ UNCHANGED <<modelState, ref>>

HasParams(g) == \E l \in Layers(cfg) : l.mod = g

\* loss(pred).backward(); optimizer.step() over model.parameters()
OptimizerStep ==
  /\ pc = "returned"
  /\ steps < MaxSteps
  /\ updates' = [g \in Groups |->
                   IF g \in x.graph /\ HasParams(g) THEN updates[g] + 1 ELSE updates[g]]
  /\ steps' = steps + 1
  /\ ref' = NoRef
  /\ pc' = "idle"
  /\ imgs' = NoImage
  /\ labels' = NoLabel
  /\ shot_num' = 0
  /\ x' = NoTensor
  /\ y' = NoTensor
  /\ i' = 0
  /\ stage' = 0
  /\ textCalls' = 0
  /\ err' = "none"
  /\ UNCHANGED <<cfg, params, initPasses>>

Next ==
  \/ Construct
  \/ Forward
  \/ EncodeText
  \/ Block
  \/ DecoderNorm
  \/ Reshape
  \/ HeadStage
  \/ SqueezeReturn
  \/ Done
  \/ OptimizerStep

Spec == Init /\ [][Next]_vars

(* ------------------------------------------------------------------ claims *)

IsSquare(n) == \E r \in 0..n : r * r = n

HistOps(h, names) == SelectSeq(h, LAMBDA e : e.op \in names)

CountOps(h, names) == Len(HistOps(h, names))

\* C1: whenever forward returns, the latent had a perfect-square patch count P,
\* the result is [N, 16*sqrt(P), 16*sqrt(P)] with N the batch size (N = 1
\* included), four upsamples were applied, and the squeeze removed only the
\* channel dimension.
C1_OutputShape ==
  pc = "returned" =>
    /\ cfg.decoder_embed_dim = ClipWidth
    /\ \E r \in 1..imgs.p :
         /\ r * r = imgs.p
         /\ x.shape = <<imgs.n, 16 * r, 16 * r>>
    /\ CountOps(x.hist, {"interpolate"}) = 4
    /\ LET h == x.hist IN
         /\ Len(h[Len(h) - 1].shape) = 4
         /\ h[Len(h) - 1].shape[2] = 1
         /\ h[Len(h)].op = "squeeze"

C1_Witness ==
  /\ pc = "returned"
  /\ imgs.n = 1
  /\ imgs.p = 4
  /\ x.shape = <<1, 32, 32>>

\* C2: for a patch count that is not a perfect square, forward never gets past
\* the reshape (no grid, no density map is built), and with matching widths the
\* error is raised by the reshape itself.
C2_NonSquareRaises ==
  (pc \notin {"new", "idle"} /\ ~IsSquare(imgs.p)) =>
    /\ pc \notin {"head", "returned"}
    /\ CountOps(x.hist, {"reshape", "Conv2d", "interpolate", "squeeze"}) = 0
    /\ (pc = "raised" /\ cfg.decoder_embed_dim = ClipWidth) => err = "reshape"

C2_Witness ==
  /\ pc = "raised"
  /\ err = "reshape"
  /\ imgs.p = 5
  /\ x.shape = <<imgs.n, 5, ClipWidth>>

\* C7: a model built with a decoder_embed_dim other than the backbone's width
\* never gets a latent past the decoder norm, never returns, and while the call
\* runs the latent keeps the backbone's width (it is not projected, padded or
\* truncated); the call ends raised, for every decoder_depth, 0 included.
C7_WidthMismatchRaises ==
  (cfg.decoder_embed_dim # ClipWidth /\ pc \notin {"new", "idle"}) =>
    /\ pc \in {"encode_text", "blocks", "raised"}
    /\ x.shape = <<imgs.n, imgs.p, ClipWidth>>
    /\ CountOps(x.hist, {"blk", "decoder_norm"}) = 0
    /\ pc = "raised" => err \in {"blk", "decoder_norm"}
    /\ (pc = "raised" /\ cfg.decoder_depth = 0) => err = "decoder_norm"

C7_Witness ==
  /\ pc = "raised"
  /\ cfg.decoder_embed_dim # ClipWidth
  /\ cfg.decoder_depth = 0
  /\ err = "decoder_norm"

\* C3: after an optimizer step on the gradients of a loss computed from forward,
\* no backbone parameter group (image path or text path) has been updated and
\* every decoder-block, decoder-norm, regression-head and shot-token group has.
C3_FrozenBackbone ==
  steps >= 1 =>
    /\ \A g \in BackboneGroups : updates[g] = 0
    /\ \A g \in Groups \ BackboneGroups : HasParams(g) => updates[g] = steps

\* C3, the image path alone: no gradient reaches the image encoder
C3_ImagePathFrozen == updates["clip_visual"] = 0

NormKinds == {"LayerNorm", "GroupNorm"}

IsOne(p) == p.weight = "one" /\ p.bias = "zero"

ForwardStep == pc \notin {"new"} /\ steps' = steps

\* C4: once constructed, the initialization pass has run exactly once; until the
\* first optimizer update every LayerNorm and GroupNorm the model owns has
\* weight 1 and bias 0 and every Linear layer has bias 0; and no step of a
\* forward call runs the pass again or changes a parameter.
C4_InitializedOnce ==
  /\ [](pc # "new" => initPasses = 1)
  /\ []((pc # "new" /\ steps = 0) =>
          /\ \A g \in Groups : updates[g] = 0
          /\ \A l \in OwnLayers(cfg) :
               l.kind \in NormKinds => IsOne(params[l])
          /\ \A l \in Layers(cfg) :
               l.kind = "Linear" => params[l].bias = "zero")
  /\ [][ForwardStep => UNCHANGED <<params, initPasses, updates>>]_vars

C4_Witness ==
  /\ pc = "returned"
  /\ initPasses = 1
  /\ steps = 0
  /\ cfg.decoder_depth = 6
  /\ \A l \in OwnLayers(cfg) : l.kind \in NormKinds => IsOne(params[l])
  /\ \E l \in OwnLayers(cfg) : l.kind = "Linear" /\ l.idx = 5

\* C10: after construction every parameter of clip_encoder still holds the
\* pretrained value it was loaded with.
C10_BackboneUntouched ==
  pc # "new" => \A l \in ClipLayers : params[l] = Pretrained(l)

\* C10, what the initialization pass does leave alone in the backbone: the
\* modules that are neither Linear nor LayerNorm
C10_OtherBackboneModulesUntouched ==
  pc # "new" =>
    \A l \in ClipLayers :
      l.kind \notin {"Linear", "LayerNorm"} => params[l] = Pretrained(l)

SameCall == ref.set /\ ref.imgs = imgs /\ ref.labels = labels

\* C5: a forward call that returns with the same (imgs, labels, shot_num) as an
\* earlier call made since the last parameter update returns the same density
\* map, however many calls came between; and no step of a forward call changes
\* the model's state.
C5_Deterministic ==
  /\ []((pc = "returned" /\ SameCall /\ ref.shot_num = shot_num) => x = ref.out)
  /\ [][ForwardStep => UNCHANGED modelState]_vars

C5_Witness ==
  /\ pc = "returned"
  /\ SameCall
  /\ ref.shot_num = shot_num
  /\ ref.later = MaxCounted
  /\ x = ref.out

\* C6: two forward calls on the same imgs and labels return the same density
\* map of the same shape after the same decoder blocks and head stages,
\* whatever their shot_num.
C6_ShotNumIgnored ==
  (pc = "returned" /\ SameCall) =>
    /\ x = ref.out
    /\ CountOps(x.hist, {"blk"}) = CountOps(ref.out.hist, {"blk"})
    /\ CountOps(x.hist, {"interpolate"}) = CountOps(ref.out.hist, {"interpolate"})

C6_Witness ==
  /\ pc = "returned"
  /\ SameCall
  /\ ref.later >= 1
  /\ ref.shot_num # shot_num
  /\ x.shape = ref.out.shape

PresetBlocks(name) ==
  CASE name = "mae_vit_base_patch16_dec512d8b"  -> 2
    [] name = "mae_vit_large_patch16_dec512d8b" -> 2
    [] name = "mae_vit_huge_patch14_dec512d8b"  -> 2
    [] name = "mae_vit_base_patch16_fim4"       -> 4
    [] name = "mae_vit_base_patch16_fim6"       -> 6
    [] OTHER                                    -> cfg.decoder_depth

LatentShape == <<imgs.n, imgs.p, ClipWidth>>

\* the provenance of the primary sequence after blocks 0..n-1, applied in order
\* to the image latent
AfterBlocks(n) ==
  << Op("encode_image", 0, LatentShape) >>
  \o [j \in 1..n |-> Op("blk", j - 1, LatentShape)]

AfterNorm(n) == Append(AfterBlocks(n), Op("decoder_norm", 0, LatentShape))

\* C8: in one forward call the exemplar embedding is computed by exactly one
\* encode_text call before any block runs and is the same unmodified tensor for
\* every block; the blocks run in list order, each on its predecessor's output,
\* block 0 on the image latent; the final norm runs once, after the last of
\* exactly decoder_depth blocks and before the reshape; the presets run 2, 2,
\* 2, 4 and 6 blocks.
C8_DecoderOrder ==
  /\ pc = "encode_text" => (textCalls = 0 /\ x.hist = AfterBlocks(0))
  /\ pc \in {"blocks", "reshape", "head", "returned"} =>
       /\ textCalls = 1
       /\ y.hist = << Op("encode_text", 0, <<imgs.n, ExemplarTokens, ClipWidth>>) >>
       /\ y.src.lab = labels
  /\ pc = "blocks" => (i <= cfg.decoder_depth /\ x.hist = AfterBlocks(i))
  /\ pc \in {"reshape", "head", "returned"} =>
       /\ SubSeq(x.hist, 1, cfg.decoder_depth + 2) = AfterNorm(cfg.decoder_depth)
       /\ CountOps(x.hist, {"blk"}) = PresetBlocks(cfg.name)
       /\ CountOps(x.hist, {"decoder_norm"}) = 1
       /\ x.src.img = imgs
       /\ cfg.decoder_depth > 0 => x.src.lab = labels
  /\ pc = "reshape" => Len(x.hist) = cfg.decoder_depth + 2

C8_Witness ==
  /\ pc = "returned"
  /\ cfg.name = "mae_vit_base_patch16_fim6"
  /\ CountOps(x.hist, {"blk"}) = 6
  /\ textCalls = 1

HeadOps == {"Conv2d", "GroupNorm", "ReLU", "interpolate"}

RECURSIVE Pow2(_)
Pow2(n) == IF n = 0 THEN 1 ELSE 2 * Pow2(n - 1)

\* the operations of stage s and the shape each must leave, on a grid of
\* side r = sqrt(P) and a batch of n
ExpectedStage(s, n, r) ==
  LET side == Pow2(s) * r
      keep == <<n, HeadChannels, side, side>>
      one  == <<n, 1, side, side>>
      last == IF s = 3 THEN 1 ELSE HeadChannels
  IN << Op("Conv2d", s, keep), Op("GroupNorm", s, keep), Op("ReLU", s, keep) >>
     \o (IF s = 3 THEN << Op("Conv2d", s, one) >> ELSE << >>)
     \o << Op("interpolate", s, <<n, last, 2 * side, 2 * side>>) >>

RECURSIVE ExpectedHead(_, _, _)
ExpectedHead(done, n, r) ==
  IF done = 0 THEN << >>
  ELSE ExpectedHead(done - 1, n, r) \o ExpectedStage(done - 1, n, r)

\* C9: the head stages run in the order 0, 1, 2, 3; in each the convolutions
\* keep the spatial size and one upsample doubles the side of the stage's
\* input, so that after stage s the side is 2^(s+1)*sqrt(P); the channels are
\* decoder_embed_dim on entry, 256 after stages 0 to 2 and 1 after stage 3,
\* whose 1x1 convolution follows GroupNorm and ReLU, is followed by no
\* normalization or activation, and precedes the last upsample.
C9_HeadGeometry ==
  pc \in {"head", "returned"} =>
    LET n    == imgs.n
        r    == CHOOSE q \in 0..imgs.p : q * q <= imgs.p /\ (q + 1) * (q + 1) > imgs.p
        done == IF pc = "returned" THEN 4 ELSE stage
        grid == x.hist[cfg.decoder_depth + 4]
    IN /\ r * r = imgs.p
       /\ grid = Op("reshape", 0, <<n, cfg.decoder_embed_dim, r, r>>)
       /\ HistOps(x.hist, HeadOps) = ExpectedHead(done, n, r)
       /\ pc = "head" =>
            x.shape = IF done = 0 THEN grid.shape
                      ELSE <<n, IF done = 4 THEN 1 ELSE HeadChannels,
                             Pow2(done) * r, Pow2(done) * r>>

C9_Witness ==
  /\ pc = "head"
  /\ stage = 4
  /\ imgs.p = 4
  /\ x.shape = <<imgs.n, 1, 32, 32>>

====
